---------------------------- MODULE Spec2Model ----------------------------
(***************************************************************************)
(* Verification model of the FastScapecc mesh-deformation plugin           *)
(* (source/mesh_deformation/fastscapecc.cc).                               *)
(*                                                                         *)
(* The plugin object of every MPI rank is modelled with the members the    *)
(* code reads and writes; parse_parameters and initialize are actions, and *)
(* compute_velocity_constraints_on_boundary is split at its blocking MPI   *)
(* calls and at its loops.  Real numbers are exact rationals <<num, den>>  *)
(* or integers in model units; arrays are functions over 0..n-1.           *)
(*                                                                         *)
(* Members that no executed statement has assigned hold an indeterminate   *)
(* value: the state after construction draws them from small sets.         *)
(***************************************************************************)
EXTENDS Integers, Sequences, FiniteSets, TLC

(***************************************************************************)
(* Bounds of the model.                                                    *)
(***************************************************************************)
\* largest number of MPI ranks explored
MaxRanks == 3
\* the host advances the timestep number up to this value
MaxTimestep == 2
\* cap on the iterations of the sub-step doubling loop that are explored
MaxDoublings == 5
\* finest HEALPix resolution the abstract surface directions can resolve
MaxNside == 2

(***************************************************************************)
(* Program constants.                                                      *)
(***************************************************************************)
\* tag of every sample message (MPI_Ssend / MPI_Probe / MPI_Recv)
SAMPLE_TAG == 42
\* std::numeric_limits<double>::max(), the initial elevation of every cell
DBL_MAX == 1000
\* number of HEALPix base pixels: Npix = 12 * nside^2
HEALPIX_BASE_PIXELS == 12
\* the coordinating rank
ROOT == 0
\* erodibility handed to make_spl_eroder, in units of 1e-5
SPL_K_COEF == 20
\* boundary ids of the spherical shell: the inner and the outer surface;
\* "top" translates to the outer one
BOTTOM_BOUNDARY == 0
TOP_BOUNDARY == 1

(***************************************************************************)
(* Exact rationals <<num, den>> in lowest terms stand for the code's       *)
(* doubles.  <<1, 0>> is +infinity (a positive number divided by zero).    *)
(***************************************************************************)
Abs(x) == IF x < 0 THEN -x ELSE x

RECURSIVE GCD(_, _)
GCD(a, b) == IF b = 0 THEN a ELSE GCD(b, a % b)

\* the rational n / d in lowest terms, d >= 0
Rat(n, d) ==
  IF d = 0 THEN <<IF n > 0 THEN 1 ELSE IF n < 0 THEN -1 ELSE 0, 0>>
  ELSE LET g == GCD(Abs(n), d) IN <<n \div g, d \div g>>

RatInt(n) == <<n, 1>>

RatAdd(a, b) == Rat(a[1] * b[2] + b[1] * a[2], a[2] * b[2])

RatSub(a, b) == Rat(a[1] * b[2] - b[1] * a[2], a[2] * b[2])

RatMul(a, b) == Rat(a[1] * b[1], a[2] * b[2])

\* a / b for b > 0
RatDiv(a, b) == Rat(a[1] * b[2], a[2] * b[1])

\* a > b
RatGreater(a, b) == a[1] * b[2] > b[1] * a[2]

\* a < b
RatLess(a, b) == a[1] * b[2] < b[1] * a[2]

\* x * 0.5
RatHalf(a) == Rat(a[1], a[2] * 2)

(***************************************************************************)
(* The HEALPix grid (T_Healpix_Base<int>), by its contract.  A point of    *)
(* the surface is known by its direction, one of DirRange equal sectors.   *)
(***************************************************************************)
Npix(ns) == HEALPIX_BASE_PIXELS * ns * ns

DirRange == Npix(MaxNside)

\* healpix_grid.vec2pix: the pixel that holds direction d at resolution ns
vec2pix(ns, d) == (d * Npix(ns)) \div DirRange

\* the constructor throws unless nside > 0
HealpixValid(ns) == ns > 0

(***************************************************************************)
(* The surface meshes explored.  A face lists its corner points in         *)
(* quadrature order; neighbouring faces share a corner.                    *)
(***************************************************************************)
StripMesh ==
  [ faces |-> << <<1, 2>>, <<2, 3>> >>,
    dir   |-> << 0, DirRange \div 3, 2 * (DirRange \div 3) >> ]

\* two corners one sector apart: one pixel at nside 1
FineMesh ==
  [ faces |-> << <<1, 2>>, <<2, 3>> >>,
    dir   |-> << 0, DirRange \div 3, (DirRange \div 3) + 1 >> ]

\* a closed ring of faces with one corner in every pixel of nside 1
RingMesh ==
  [ faces |-> [f \in 1..Npix(1) |-> <<f, (f % Npix(1)) + 1>>],
    dir   |-> [p \in 1..Npix(1) |-> (p - 1) * (DirRange \div Npix(1))] ]

Meshes == {StripMesh, FineMesh, RingMesh}

NumFaces(m) == Len(m.faces)

NumPoints(m) == Len(m.dir)

(***************************************************************************)
(* State.                                                                  *)
(***************************************************************************)
VARIABLES
  \* the run: parameter file, process group, template parameter, surface
  prm, nranks, dim, mesh, owner,
  \* the host solver: timestep number, timestep length in years, solution
  timestep_number, timestep, sol,
  \* per rank: the plugin's members, the position in the coupling step,
  \* the locals of compute_velocity_constraints_on_boundary, the output
  plugin, pc, temporary_variables, V, send_i, constraints,
  \* locals of the coordinating rank's branch
  h, vz, h_old, recv_p, incoming_size, recv_i,
  fastscape_iterations, fastscape_timestep_in_years, fastscape_iteration,
  \* messages in flight to the coordinator, and the broadcast payload
  chan, bcast,
  \* history: sources of completed receives, merge writes per cell, the
  \* elevation as gathered, the samples each rank took, and the samples,
  \* timestep length and broadcast of the previous coupling step
  recv_log, writes, h_gathered, sampled, prev_step

host_vars == <<prm, nranks, dim, mesh, owner, timestep_number, timestep, sol>>

rank_vars == <<plugin, pc, temporary_variables, V, send_i, constraints>>

root_vars == <<h, vz, h_old, recv_p, incoming_size, recv_i,
               fastscape_iterations, fastscape_timestep_in_years,
               fastscape_iteration>>

net_vars == <<chan, bcast>>

hist_vars == <<recv_log, writes, h_gathered, sampled, prev_step>>

vars == <<host_vars, rank_vars, root_vars, net_vars, hist_vars>>

Ranks == 0..(nranks - 1)

(***************************************************************************)
(* Inputs.                                                                 *)
(***************************************************************************)
ModelNames == {"box", "spherical shell", "chunk"}

\* the enumerators of GeometryType, and a bit pattern that is neither
GeometryTypes == {"Box", "SphericalShell", "Invalid"}

Dims == {2, 3}

\* values an int member can hold when it was never assigned
IndeterminateInts == {0, 1, 2}

\* sums of the three refinement-level parameters (Patterns::Integer())
RefinementSums == {-2, -1, 0}

\* "Number of steps" (Patterns::Integer(), so 0 is accepted), "Maximum
\* timestep" (years), host timestep (years)
StepCounts == {0, 1, 2, 3}

MaxTimesteps == {1, 3}

HostTimesteps == {3, 4}

\* "Bedrock river incision rate", in units of 1e-5
IncisionRates == {0, 1}

\* the state of a plugin object after construction: no member assigned
Constructed(gt, garbage) ==
  [ phase |-> "constructed",
    geometry_type |-> gt,
    nsides |-> garbage,
    outer_radius |-> garbage,
    nx |-> garbage, ny |-> garbage, array_size |-> garbage,
    fastscape_steps_per_aspect_step |-> garbage,
    maximum_fastscape_timestep |-> garbage,
    kff |-> garbage ]

\* one velocity solution: per surface point, the last coordinate of the
\* vertex and the outward velocity in m/yr
FlatSol(m, z, u) == [p \in 1..NumPoints(m) |-> [z |-> z, vel |-> u]]

PeakSol(m, u) ==
  [p \in 1..NumPoints(m) |-> [z |-> IF p = 2 THEN 3 ELSE 1, vel |-> u]]

BumpSol(m, z) ==
  [p \in 1..NumPoints(m) |-> [z |-> z, vel |-> IF p = 1 THEN 1 ELSE 0]]

RampSol(m) ==
  [p \in 1..NumPoints(m) |-> [z |-> IF p <= 2 THEN p ELSE 1,
                              vel |-> IF p = 3 THEN 2 ELSE 0]]

Solutions(m, n) ==
  IF n = 1
  THEN {FlatSol(m, 1, 0), FlatSol(m, 1, 1), PeakSol(m, 0), PeakSol(m, 1),
        BumpSol(m, 1), RampSol(m)}
  ELSE {FlatSol(m, 1, 1), RampSol(m)}

\* the lengths of the host timestep explored with n ranks
TimestepsFor(n) == IF n = 1 THEN HostTimesteps ELSE {3}

\* partitions of the faces among the ranks (cell->is_locally_owned())
Owners(m, n) ==
  IF m = RingMesh
  THEN {[f \in 1..NumFaces(m) |-> ((f - 1) * n) \div NumFaces(m)]}
  ELSE [1..NumFaces(m) -> 0..(n - 1)]

\* the sets of boundary ids on which the parameter file prescribes the
\* plugin, handed to compute_velocity_constraints_on_boundary
BoundaryIdSets == {{TOP_BOUNDARY}, {BOTTOM_BOUNDARY}, {BOTTOM_BOUNDARY, TOP_BOUNDARY}}

Prm(name, l, b, d, k) ==
  [ model_name |-> name, refinement |-> l, steps |-> b, max_dt |-> d,
    kff |-> k, outer_radius |-> 1, repetitions |-> <<1, 1>>,
    boundary_ids |-> {TOP_BOUNDARY} ]

\* runs that exercise the message exchange
ProtocolRuns ==
  { [nranks |-> n, dim |-> 3, mesh |-> m, owner |-> o,
     prm |-> Prm("spherical shell", -1, 1, 3, 1)] :
      n \in 1..MaxRanks, m \in {StripMesh, FineMesh},
      o \in [1..2 -> 0..(MaxRanks - 1)] }

\* runs of the 2d instantiation
PlaneRuns ==
  { [nranks |-> n, dim |-> 2, mesh |-> StripMesh, owner |-> <<0, n - 1>>,
     prm |-> Prm("spherical shell", l, 1, 3, 1)] : n \in 1..2, l \in {-1, 0} }

\* runs with the plugin prescribed on other boundaries than the top
BoundaryRuns ==
  { [nranks |-> n, dim |-> 3, mesh |-> StripMesh, owner |-> <<0, n - 1>>,
     prm |-> [Prm("spherical shell", -1, 1, 3, 1) EXCEPT !.boundary_ids = ids]] :
      n \in 1..2, ids \in BoundaryIdSets }

\* runs that exercise the geometry selection
GeometryRuns ==
  { [nranks |-> n, dim |-> 3, mesh |-> StripMesh, owner |-> <<0, n - 1>>,
     prm |-> Prm(name, l, 1, 3, 1)] :
      n \in 1..2, name \in ModelNames, l \in RefinementSums }

\* runs that exercise the sub-stepping and the evolution
EvolutionRuns ==
  { [nranks |-> 1, dim |-> 3, mesh |-> m, owner |-> [f \in 1..NumFaces(m) |-> 0],
     prm |-> Prm("spherical shell", -1, b, d, k)] :
      m \in Meshes, b \in StepCounts, d \in MaxTimesteps, k \in IncisionRates }

\* a complete surface shared by two ranks
RingRuns ==
  { [nranks |-> 2, dim |-> 3, mesh |-> RingMesh, owner |-> o,
     prm |-> Prm("spherical shell", -1, 2, 3, 0)] : o \in Owners(RingMesh, 2) }

\* the runs on which termination is examined
TerminationRuns ==
  { r \in ProtocolRuns \cup GeometryRuns \cup EvolutionRuns :
      /\ r.mesh = StripMesh
      /\ r.owner \in Owners(r.mesh, r.nranks)
      /\ r.nranks = 2 \/ r \in EvolutionRuns
      /\ r.prm.model_name # "chunk"
      /\ r.prm.refinement = -1
      /\ r.prm.max_dt = 1 \/ r \notin EvolutionRuns
      /\ r.prm.kff = 1 }

Runs ==
  { r \in ProtocolRuns : r.owner \in Owners(r.mesh, r.nranks) }
    \cup PlaneRuns \cup GeometryRuns \cup EvolutionRuns \cup RingRuns
    \cup BoundaryRuns

\* members that stay unassigned are explored for the names that leave them so
Garbage(run) ==
  IF run.prm.model_name = "spherical shell"
  THEN {[r \in 0..(run.nranks - 1) |-> Constructed("Invalid", 0)]}
  ELSE { [r \in 0..(run.nranks - 1) |-> Constructed(gt[r], g[r])] :
           gt \in [0..(run.nranks - 1) ->
                     IF run.prm.model_name = "box" THEN {"Invalid"}
                     ELSE GeometryTypes],
           g \in [0..(run.nranks - 1) -> IndeterminateInts] }

NoArray == << >>

\* the state after construction of the plugin objects of run
InitOf(run, pl) ==
  /\ prm = run.prm
  /\ nranks = run.nranks
  /\ dim = run.dim
  /\ mesh = run.mesh
  /\ owner = run.owner
  /\ timestep_number = 0
  /\ timestep = 0
  /\ sol = FlatSol(run.mesh, 1, 0)
  /\ plugin = pl
  /\ pc = [r \in 0..(run.nranks - 1) |-> "idle"]
  /\ temporary_variables = [r \in 0..(run.nranks - 1) |-> << >>]
  /\ V = [r \in 0..(run.nranks - 1) |-> NoArray]
  /\ send_i = [r \in 0..(run.nranks - 1) |-> 0]
  /\ constraints = [r \in 0..(run.nranks - 1) |-> << >>]
  /\ h = NoArray /\ vz = NoArray /\ h_old = NoArray
  /\ recv_p = 0 /\ incoming_size = 0 /\ recv_i = 0
  /\ fastscape_iterations = 0
  /\ fastscape_timestep_in_years = RatInt(0)
  /\ fastscape_iteration = 0
  /\ chan = [r \in 0..(run.nranks - 1) |-> << >>]
  /\ bcast = << >>
  /\ recv_log = << >>
  /\ writes = NoArray
  /\ h_gathered = NoArray
  /\ sampled = [r \in 0..(run.nranks - 1) |-> << >>]
  /\ prev_step = << >>

Init == \E run \in Runs : \E pl \in Garbage(run) : InitOf(run, pl)

(***************************************************************************)
(* parse_parameters and initialize.                                        *)
(***************************************************************************)
\* static_cast<int>(sqrt(48 * pow(2, 2 * levels) / 12))
NsidesFromLevels(l) == IF l + 1 >= 0 THEN 2 ^ (l + 1) ELSE 0

\* the members parse_parameters assigns; geometry_type and the geometry's
\* own members keep their value when the name is neither supported one
ParsedPlugin(pl) ==
  LET name == prm.model_name
      common == [pl EXCEPT !.phase = "parsed",
                           !.fastscape_steps_per_aspect_step = prm.steps,
                           !.maximum_fastscape_timestep = prm.max_dt,
                           !.kff = prm.kff]
  IN  IF name = "box"
      THEN [common EXCEPT !.geometry_type = "Box"]
      ELSE IF name = "spherical shell"
      THEN [common EXCEPT !.geometry_type = "SphericalShell",
                          !.outer_radius = prm.outer_radius]
      ELSE common

ParseParameters(r) ==
  /\ plugin[r].phase = "constructed"
  /\ plugin' = [plugin EXCEPT ![r] = ParsedPlugin(plugin[r])]
  /\ UNCHANGED <<host_vars, pc, temporary_variables, V, send_i, constraints,
                 root_vars, net_vars, hist_vars>>

\* the Box branch dereferences dynamic_cast<const Box *>, which is null
\* unless the host's geometry model is the box
InitializedPlugin(pl) ==
  IF pl.geometry_type = "Box"
  THEN IF prm.model_name = "box"
       THEN [pl EXCEPT !.phase = "initialized",
                       !.nx = prm.repetitions[1] + 1,
                       !.ny = prm.repetitions[2] + 1,
                       !.array_size = (prm.repetitions[1] + 1)
                                        * (prm.repetitions[2] + 1)]
       ELSE [pl EXCEPT !.phase = "crashed"]
  ELSE IF pl.geometry_type = "SphericalShell"
  THEN [pl EXCEPT !.phase = "initialized",
                  !.nsides = NsidesFromLevels(prm.refinement)]
  ELSE [pl EXCEPT !.phase = "threw"]

Initialize(r) ==
  /\ plugin[r].phase = "parsed"
  /\ plugin' = [plugin EXCEPT ![r] = InitializedPlugin(plugin[r])]
  /\ UNCHANGED <<host_vars, pc, temporary_variables, V, send_i, constraints,
                 root_vars, net_vars, hist_vars>>

(***************************************************************************)
(* compute_velocity_constraints_on_boundary: sampling (lines 94-147).      *)
(***************************************************************************)
\* vertex(2) and vel[corner][2] lie outside a Point<2> / Tensor<1,2>: the
\* value read is indeterminate and shifts the direction and the velocity
IndeterminateCoords == IF dim = 3 THEN {0} ELSE {0, 1}

\* the walk without the ownership test
LocalFacesAll(r) == [f \in 1..NumFaces(mesh) |-> f]

\* the faces rank r walks: locally owned, at the top boundary, in mesh order
LocalFaces(r) == SelectSeq([f \in 1..NumFaces(mesh) |-> f], LAMBDA f : owner[f] = r)

\* the pixel of surface point p on rank r
PixelOf(r, p, g) == vec2pix(plugin[r].nsides, (mesh.dir[p] + g) % DirRange)

\* one sample per corner of a face (lines 129-143)
FaceSamples(r, f, g) ==
  [c \in 1..Len(mesh.faces[f]) |->
     LET p == mesh.faces[f][c]
     IN  [ face |-> f, point |-> p,
           z |-> sol[p].z - plugin[r].outer_radius,
           index |-> PixelOf(r, p, g),
           vel |-> sol[p].vel + g ] ]

RECURSIVE ConcatFaces(_, _, _)
ConcatFaces(r, fs, g) ==
  IF fs = << >> THEN << >>
  ELSE FaceSamples(r, Head(fs), g) \o ConcatFaces(r, Tail(fs), g)

BoundarySamples(r, g) == ConcatFaces(r, LocalFaces(r), g)

\* temporary_variables: dim + 2 arrays, of which only the first three are
\* appended to
SampleArrays(smp) ==
  [i \in 1..(dim + 2) |->
     IF i = 1 THEN [k \in 1..Len(smp) |-> smp[k].z]
     ELSE IF i = 2 THEN [k \in 1..Len(smp) |-> smp[k].index]
     ELSE IF i = 3 THEN [k \in 1..Len(smp) |-> smp[k].vel]
     ELSE << >>]

Zeros(n) == [i \in 0..(n - 1) |-> RatInt(0)]

\* get_timestep_number() == 0 (line 94)
IsFirstTimestepNever == timestep_number < 0

IsFirstTimestep == timestep_number = 0

\* the first timestep returns at once (lines 94-95)
SkipFirstTimestep(r) ==
  /\ pc[r] = "idle"
  /\ plugin[r].phase = "initialized"
  /\ IsFirstTimestep
  /\ pc' = [pc EXCEPT ![r] = "returned"]
  /\ UNCHANGED <<host_vars, plugin, temporary_variables, V, send_i,
                 constraints, root_vars, net_vars, hist_vars>>

\* T_Healpix_Base throws for nside <= 0 (line 115)
HealpixThrows(r) ==
  /\ pc[r] = "idle"
  /\ plugin[r].phase = "initialized"
  /\ ~IsFirstTimestep
  /\ ~HealpixValid(plugin[r].nsides)
  /\ pc' = [pc EXCEPT ![r] = "failed"]
  /\ UNCHANGED <<host_vars, plugin, temporary_variables, V, send_i,
                 constraints, root_vars, net_vars, hist_vars>>

\* a test that every rank passes
CoordinatorAny(r) == TRUE

\* Utilities::MPI::this_mpi_process(...) == 0 (line 149)
Coordinator(r) == r = ROOT

SampleBoundary(r) ==
  /\ pc[r] = "idle"
  /\ plugin[r].phase = "initialized"
  /\ ~IsFirstTimestep
  /\ HealpixValid(plugin[r].nsides)
  /\ \E g \in IndeterminateCoords :
       LET smp == BoundarySamples(r, g)
       IN  /\ temporary_variables' =
                [temporary_variables EXCEPT ![r] = SampleArrays(smp)]
           /\ sampled' = [sampled EXCEPT ![r] = smp]
  /\ V' = [V EXCEPT ![r] = Zeros(Npix(plugin[r].nsides))]
  /\ send_i' = [send_i EXCEPT ![r] = 0]
  /\ pc' = [pc EXCEPT ![r] = IF Coordinator(r) THEN "merge_own" ELSE "ssend"]
  /\ UNCHANGED <<host_vars, plugin, constraints, root_vars, net_vars,
                 recv_log, writes, h_gathered, prev_step>>

(***************************************************************************)
(* The coordinating rank: merge and gather (lines 149-189).                *)
(***************************************************************************)
\* lines 156-161 and 178-183: h[index] = z, vz[index] = vel for the
\* samples from position i on, in array order.  A write at an index
\* outside the arrays is counted in oob and leaves them as they are.
\* a merge that keeps the first value written to a cell
RECURSIVE MergeLoopFirstWins(_, _, _)
MergeLoopFirstWins(acc, tv, i) ==
  IF i > Len(tv[2]) THEN acc
  ELSE LET index == tv[2][i]
       IN  IF index \notin DOMAIN acc.h
           THEN MergeLoopFirstWins([acc EXCEPT !.oob = @ + 1], tv, i + 1)
           ELSE IF acc.writes[index] > 0
           THEN MergeLoopFirstWins([acc EXCEPT !.writes[index] = @ + 1], tv, i + 1)
           ELSE MergeLoopFirstWins([acc EXCEPT !.h[index] = RatInt(tv[1][i]),
                                               !.vz[index] = RatInt(tv[3][i]),
                                               !.writes[index] = @ + 1],
                                   tv, i + 1)

RECURSIVE MergeLoop(_, _, _)
MergeLoop(acc, tv, i) ==
  IF i > Len(tv[2]) THEN acc
  ELSE LET index == tv[2][i]
       IN  IF index \in DOMAIN acc.h
           THEN MergeLoop([acc EXCEPT !.h[index] = RatInt(tv[1][i]),
                                      !.vz[index] = RatInt(tv[3][i]),
                                      !.writes[index] = @ + 1],
                          tv, i + 1)
           ELSE MergeLoop([acc EXCEPT !.oob = @ + 1], tv, i + 1)

MergeSamples(hh, vv, ww, tv) ==
  MergeLoop([h |-> hh, vz |-> vv, writes |-> ww, oob |-> 0], tv, 1)

\* a loop over the other ranks that ends before its first iteration
AfterRankNoGather(p) == "snapshot"

\* the loop over the other ranks continues with p or is over (line 163)
AfterRank(p) == IF p < nranks THEN "probe" ELSE "snapshot"

\* a write outside the arrays either faults or lands in other memory
MergeOutcomes(m, p) ==
  IF m.oob > 0 THEN {"failed", AfterRank(p)} ELSE {AfterRank(p)}

\* an elevation array that starts at zero
InitialElevationZero(n) == [i \in 0..(n - 1) |-> RatInt(0)]

\* std::vector<double> h(array_size, numeric_limits<double>::max()) (line 152)
InitialElevation(n) == [i \in 0..(n - 1) |-> RatInt(DBL_MAX)]

\* lines 152-161: allocate h, vz, h_old and merge the own samples
MergeOwn ==
  /\ pc[ROOT] = "merge_own"
  /\ LET n == Npix(plugin[ROOT].nsides)
         m == MergeSamples(InitialElevation(n), Zeros(n),
                           [i \in 0..(n - 1) |-> 0],
                           temporary_variables[ROOT])
     IN  /\ h' = m.h
         /\ vz' = m.vz
         /\ writes' = m.writes
         /\ h_gathered' = m.h
         /\ h_old' = Zeros(n)
         /\ recv_p' = 1
         /\ \E next \in MergeOutcomes(m, 1) : pc' = [pc EXCEPT ![ROOT] = next]
  /\ UNCHANGED <<host_vars, plugin, temporary_variables, V, send_i,
                 constraints, incoming_size, recv_i, fastscape_iterations,
                 fastscape_timestep_in_years, fastscape_iteration, net_vars,
                 recv_log, sampled, prev_step>>

\* std::vector::resize: keep the prefix, append zeros
Resize(a, n) == [k \in 1..n |-> IF k <= Len(a) THEN a[k] ELSE 0]

\* a receive from whichever rank has a message pending
MessageSourceAny(p) ==
  IF \E q \in Ranks : chan[q] # << >>
  THEN CHOOSE q \in Ranks : chan[q] # << >> /\ \A o \in Ranks : chan[o] # << >> => o <= q
  ELSE p

\* the source argument of MPI_Probe and MPI_Recv (lines 166, 176)
MessageSource(p) == p

\* lines 165-173: MPI_Probe blocks until a message of rank p with the
\* sample tag is pending, MPI_Get_count reads its length
Probe ==
  /\ pc[ROOT] = "probe"
  /\ chan[MessageSource(recv_p)] # << >>
  /\ Head(chan[MessageSource(recv_p)]).tag = SAMPLE_TAG
  /\ incoming_size' = Len(Head(chan[MessageSource(recv_p)]).data)
  /\ temporary_variables' =
       [temporary_variables EXCEPT ![ROOT] =
          [i \in 1..Len(@) |->
             Resize(@[i], Len(Head(chan[MessageSource(recv_p)]).data))]]
  /\ recv_i' = 0
  /\ pc' = [pc EXCEPT ![ROOT] = "recv"]
  /\ UNCHANGED <<host_vars, plugin, V, send_i, constraints, h, vz, h_old,
                 recv_p, fastscape_iterations, fastscape_timestep_in_years,
                 fastscape_iteration, net_vars, hist_vars>>

\* the buffer after a receive of at most Len(buf) elements
Received(buf, data) ==
  [k \in 1..Len(buf) |-> IF k <= Len(data) THEN data[k] ELSE buf[k]]

\* line 176: MPI_Recv of the next message of rank p into array i
Recv ==
  /\ pc[ROOT] = "recv"
  /\ recv_i < Len(temporary_variables[ROOT])
  /\ chan[MessageSource(recv_p)] # << >>
  /\ Head(chan[MessageSource(recv_p)]).tag = SAMPLE_TAG
  /\ Len(Head(chan[MessageSource(recv_p)]).data) <= incoming_size
  /\ temporary_variables' =
       [temporary_variables EXCEPT ![ROOT][recv_i + 1] =
          Received(@, Head(chan[MessageSource(recv_p)]).data)]
  /\ chan' = [chan EXCEPT ![MessageSource(recv_p)] = Tail(@)]
  /\ recv_log' = Append(recv_log, MessageSource(recv_p))
  /\ recv_i' = recv_i + 1
  /\ UNCHANGED <<host_vars, plugin, pc, V, send_i, constraints, h, vz, h_old,
                 recv_p, incoming_size, fastscape_iterations,
                 fastscape_timestep_in_years, fastscape_iteration, bcast,
                 writes, h_gathered, sampled, prev_step>>

\* lines 178-183: merge the samples received from rank p
MergeReceived ==
  /\ pc[ROOT] = "recv"
  /\ recv_i = Len(temporary_variables[ROOT])
  /\ LET m == MergeSamples(h, vz, writes, temporary_variables[ROOT])
     IN  /\ h' = m.h
         /\ vz' = m.vz
         /\ writes' = m.writes
         /\ h_gathered' = m.h
         /\ \E next \in MergeOutcomes(m, recv_p + 1) :
              pc' = [pc EXCEPT ![ROOT] = next]
  /\ recv_p' = recv_p + 1
  /\ UNCHANGED <<host_vars, plugin, temporary_variables, V, send_i,
                 constraints, h_old, incoming_size, recv_i,
                 fastscape_iterations, fastscape_timestep_in_years,
                 fastscape_iteration, net_vars, recv_log, sampled,
                 prev_step>>

\* lines 186-189: h_old[i] = h[i]
Snapshot ==
  /\ pc[ROOT] = "snapshot"
  /\ h_old' = h
  /\ pc' = [pc EXCEPT ![ROOT] = "substep"]
  /\ UNCHANGED <<host_vars, plugin, temporary_variables, V, send_i,
                 constraints, h, vz, recv_p, incoming_size, recv_i,
                 fastscape_iterations, fastscape_timestep_in_years,
                 fastscape_iteration, net_vars, hist_vars>>

(***************************************************************************)
(* The other ranks: synchronous sends (lines 241-242).                     *)
(***************************************************************************)
\* the count doubles read from array a.  An array shorter than the count
\* is read past its end: the elements read there are indeterminate.
SendBuffer(a, count) == [k \in 1..count |-> IF k <= Len(a) THEN a[k] ELSE -1]

\* MPI_Ssend starts: the message is pending at the coordinator
SsendPost(r) ==
  /\ pc[r] = "ssend"
  /\ send_i[r] < Len(temporary_variables[r])
  /\ chan' = [chan EXCEPT ![r] =
                Append(@, [tag |-> SAMPLE_TAG,
                           data |-> SendBuffer(temporary_variables[r][send_i[r] + 1],
                                               Len(temporary_variables[r][2]))])]
  /\ pc' = [pc EXCEPT ![r] = "ssend_wait"]
  /\ UNCHANGED <<host_vars, plugin, temporary_variables, V, send_i,
                 constraints, root_vars, bcast, hist_vars>>

\* the read past the end of an empty array faults
SsendFaults(r) ==
  /\ pc[r] = "ssend"
  /\ send_i[r] < Len(temporary_variables[r])
  /\ Len(temporary_variables[r][send_i[r] + 1]) < Len(temporary_variables[r][2])
  /\ pc' = [pc EXCEPT ![r] = "failed"]
  /\ UNCHANGED <<host_vars, plugin, temporary_variables, V, send_i,
                 constraints, root_vars, net_vars, hist_vars>>

\* a send that returns as soon as the message is buffered
SendCompletedEager(r) == TRUE

\* the synchronous mode of MPI_Ssend: the call completes only when the
\* coordinator's matching receive has taken the message
SendCompleted(r) == chan[r] = << >>

\* MPI_Ssend returns once the coordinator has received the message
SsendReturn(r) ==
  /\ pc[r] = "ssend_wait"
  /\ SendCompleted(r)
  /\ send_i' = [send_i EXCEPT ![r] = @ + 1]
  /\ pc' = [pc EXCEPT ![r] = IF send_i[r] + 1 < Len(temporary_variables[r])
                              THEN "ssend" ELSE "bcast"]
  /\ UNCHANGED <<host_vars, plugin, temporary_variables, V, constraints,
                 root_vars, net_vars, hist_vars>>

(***************************************************************************)
(* The coordinating rank: sub-stepping and evolution (lines 191-236).      *)
(***************************************************************************)
\* lines 191-194
SubstepInit ==
  /\ pc[ROOT] = "substep"
  /\ fastscape_iterations' = plugin[ROOT].fastscape_steps_per_aspect_step
  /\ fastscape_timestep_in_years' =
       Rat(timestep, plugin[ROOT].fastscape_steps_per_aspect_step)
  /\ pc' = [pc EXCEPT ![ROOT] = "double"]
  /\ UNCHANGED <<host_vars, plugin, temporary_variables, V, send_i,
                 constraints, h, vz, h_old, recv_p, incoming_size, recv_i,
                 fastscape_iteration, net_vars, hist_vars>>

\* the loop condition with >= for >
StepTooLongOrEqual ==
  ~RatLess(fastscape_timestep_in_years,
           RatInt(plugin[ROOT].maximum_fastscape_timestep))

\* the condition of the while loop (line 195)
StepTooLong ==
  RatGreater(fastscape_timestep_in_years,
             RatInt(plugin[ROOT].maximum_fastscape_timestep))

\* lines 195-199: one iteration of the doubling loop
SubstepDouble ==
  /\ pc[ROOT] = "double"
  /\ StepTooLong
  /\ \/ fastscape_iterations = 0
     \/ fastscape_iterations
          < plugin[ROOT].fastscape_steps_per_aspect_step * (2 ^ MaxDoublings)
  /\ fastscape_iterations' = fastscape_iterations * 2
  /\ fastscape_timestep_in_years' = RatHalf(fastscape_timestep_in_years)
  /\ UNCHANGED <<host_vars, rank_vars, h, vz, h_old, recv_p, incoming_size,
                 recv_i, fastscape_iteration, net_vars, hist_vars>>

\* the loop ends; lines 201-218 build the grid, the flow graph, the eroder
SubstepDone ==
  /\ pc[ROOT] = "double"
  /\ ~StepTooLong
  /\ fastscape_iteration' = 0
  /\ pc' = [pc EXCEPT ![ROOT] = "evolve"]
  /\ UNCHANGED <<host_vars, plugin, temporary_variables, V, send_i,
                 constraints, h, vz, h_old, recv_p, incoming_size, recv_i,
                 fastscape_iterations, fastscape_timestep_in_years, net_vars,
                 hist_vars>>

\* the grid's neighbours of cell i: the pixels form a ring
Neighbours(e, i) ==
  LET n == Cardinality(DOMAIN e) IN {(i + 1) % n, (i + n - 1) % n} \ {i}

\* single_flow_router: the lowest neighbour below cell i, or i itself
Receiver(e, i) ==
  LET lower == {j \in Neighbours(e, i) : RatLess(e[j], e[i])}
  IN  IF lower = {} THEN i
      ELSE CHOOSE j \in lower :
             \A k \in lower : RatLess(e[j], e[k]) \/ (~RatLess(e[k], e[j]) /\ j <= k)

\* spl_eroder.erode, by its contract: nothing without erodibility or
\* without a lower receiver, else a share of the drop to the receiver
SplErosion(k_coef, e, dt) ==
  [i \in DOMAIN e |->
     IF k_coef = 0 \/ dt[1] = 0 \/ Receiver(e, i) = i THEN RatInt(0)
     ELSE RatHalf(RatSub(e[i], e[Receiver(e, i)]))]

\* an eroder kept from one coupling step to the next, worn out by the first
EroderCoefficientAged(pl) == SPL_K_COEF * (timestep_number % 2)

\* the erodibility the eroder is built with (line 209)
EroderCoefficient(pl) == SPL_K_COEF

\* lines 222-227: one sub-step, written through the adaptor into h
EvolvedElevation(e, uplift, dt, k_coef) ==
  LET uplifted == [i \in DOMAIN e |-> RatAdd(e[i], RatMul(dt, uplift[i]))]
      erosion == SplErosion(k_coef, uplifted, dt)
  IN  [i \in DOMAIN e |-> RatSub(uplifted[i], erosion[i])]

EvolveStep ==
  /\ pc[ROOT] = "evolve"
  /\ fastscape_iteration < fastscape_iterations
  /\ h' = EvolvedElevation(h, vz, fastscape_timestep_in_years,
                            EroderCoefficient(plugin[ROOT]))
  /\ fastscape_iteration' = fastscape_iteration + 1
  /\ UNCHANGED <<host_vars, rank_vars, vz, h_old, recv_p, incoming_size,
                 recv_i, fastscape_iterations, fastscape_timestep_in_years,
                 net_vars, hist_vars>>

\* the velocity per sub-step instead of per host timestep
VelocityOfPerSubstep(elevation_std, elevation_old_std, dt) ==
  [i \in DOMAIN elevation_std |->
     RatDiv(RatSub(elevation_std[i], elevation_old_std[i]),
            fastscape_timestep_in_years)]

\* line 235
VelocityOf(elevation_std, elevation_old_std, dt) ==
  [i \in DOMAIN elevation_std |->
     RatDiv(RatSub(elevation_std[i], elevation_old_std[i]), RatInt(dt))]

\* lines 230-236.  elevation_old_std is built from the iterator pair
\* (elevation_old.begin(), elevation.end()), which spans two arrays: the
\* copy starts at h_old and either covers it or the constructor throws.
ComputeVelocity ==
  /\ pc[ROOT] = "evolve"
  /\ fastscape_iteration >= fastscape_iterations
  /\ V' = [V EXCEPT ![ROOT] = VelocityOf(h, h_old, timestep)]
  /\ pc' = [pc EXCEPT ![ROOT] = "bcast"]
  /\ UNCHANGED <<host_vars, plugin, temporary_variables, send_i, constraints,
                 root_vars, net_vars, hist_vars>>

IteratorRangeThrows ==
  /\ pc[ROOT] = "evolve"
  /\ fastscape_iteration >= fastscape_iterations
  /\ pc' = [pc EXCEPT ![ROOT] = "failed"]
  /\ UNCHANGED <<host_vars, plugin, temporary_variables, V, send_i,
                 constraints, root_vars, net_vars, hist_vars>>

(***************************************************************************)
(* Broadcast and interpolation (lines 237-261).                            *)
(***************************************************************************)
\* line 237: the root's MPI_Bcast hands out V and returns
BcastRoot ==
  /\ pc[ROOT] = "bcast"
  /\ bcast' = <<V[ROOT]>>
  /\ pc' = [pc EXCEPT ![ROOT] = "interpolate"]
  /\ UNCHANGED <<host_vars, plugin, temporary_variables, V, send_i,
                 constraints, root_vars, chan, hist_vars>>

\* a broadcast one element short
BcastIntoShort(buf, data) ==
  [i \in DOMAIN buf |-> IF i + 1 \in DOMAIN data THEN data[i] ELSE buf[i]]

\* the receive buffer after a broadcast of data into it
BcastInto(buf, data) ==
  [i \in DOMAIN buf |-> IF i \in DOMAIN data THEN data[i] ELSE buf[i]]

\* line 244: MPI_Bcast on another rank returns with the root's data
BcastRecv(r) ==
  /\ pc[r] = "bcast"
  /\ r # ROOT
  /\ bcast # << >>
  /\ Cardinality(DOMAIN bcast[1]) <= Cardinality(DOMAIN V[r])
  /\ V' = [V EXCEPT ![r] = BcastInto(@, bcast[1])]
  /\ pc' = [pc EXCEPT ![r] = "interpolate"]
  /\ UNCHANGED <<host_vars, plugin, temporary_variables, send_i, constraints,
                 root_vars, net_vars, hist_vars>>

\* counts that differ between the ranks make the broadcast erroneous
BcastMismatch(r) ==
  /\ pc[r] = "bcast"
  /\ r # ROOT
  /\ bcast # << >>
  /\ Cardinality(DOMAIN bcast[1]) # Cardinality(DOMAIN V[r])
  /\ pc' = [pc EXCEPT ![r] = "failed"]
  /\ UNCHANGED <<host_vars, plugin, temporary_variables, V, send_i,
                 constraints, root_vars, net_vars, hist_vars>>

\* the points of the faces rank r owns
LocalPoints(r) ==
  {mesh.faces[f][c] : f \in {g \in 1..NumFaces(mesh) : owner[g] = r}, c \in 1..2}

\* healpix_velocity_function (lines 247-251)
VelocityAt(r, p, g) == V[r][PixelOf(r, p, g)]

\* *boundary_ids.begin(): the smallest id of the std::set (line 259)
FirstBoundaryId(ids) == CHOOSE b \in ids : \A c \in ids : b <= c

\* lines 253-261: the constraint on the degrees of freedom of the boundary
\* *boundary_ids.begin(): component dim - 1 carries the looked-up value,
\* the other components are zero
Interpolate(r) ==
  /\ pc[r] = "interpolate"
  /\ \E g \in IndeterminateCoords :
       constraints' = [constraints EXCEPT ![r] =
                         [ boundary_id |-> FirstBoundaryId(prm.boundary_ids),
                           component |-> dim - 1,
                           index |-> [p \in LocalPoints(r) |-> PixelOf(r, p, g)],
                           values |-> [p \in LocalPoints(r) |-> VelocityAt(r, p, g)] ]]
  /\ pc' = [pc EXCEPT ![r] = "returned"]
  /\ UNCHANGED <<host_vars, plugin, temporary_variables, V, send_i,
                 root_vars, net_vars, hist_vars>>

(***************************************************************************)
(* The host: the next timestep, with a new solution and timestep length.   *)
(***************************************************************************)
\* the solutions explored for the next timestep: any of Solutions for the
\* first coupling step, afterwards the same again or the uniform one
NextSolutions ==
  IF timestep_number = 0 THEN Solutions(mesh, nranks)
  ELSE {sol, FlatSol(mesh, 1, 1)}

AdvanceTimestep ==
  /\ \A r \in Ranks : pc[r] = "returned"
  /\ timestep_number < MaxTimestep
  /\ timestep_number' = timestep_number + 1
  /\ timestep' \in TimestepsFor(nranks)
  /\ sol' \in NextSolutions
  /\ pc' = [r \in Ranks |-> "idle"]
  /\ temporary_variables' = [r \in Ranks |-> << >>]
  /\ V' = [r \in Ranks |-> NoArray]
  /\ send_i' = [r \in Ranks |-> 0]
  /\ h' = NoArray /\ vz' = NoArray /\ h_old' = NoArray
  /\ recv_p' = 0 /\ incoming_size' = 0 /\ recv_i' = 0
  /\ fastscape_iterations' = 0
  /\ fastscape_timestep_in_years' = RatInt(0)
  /\ fastscape_iteration' = 0
  /\ bcast' = << >>
  /\ recv_log' = << >>
  /\ writes' = NoArray
  /\ h_gathered' = NoArray
  /\ sampled' = [r \in Ranks |-> << >>]
  /\ prev_step' = IF bcast # << >>
                  THEN [sampled |-> sampled, timestep |-> timestep, V |-> bcast[1]]
                  ELSE << >>
  /\ UNCHANGED <<prm, nranks, dim, mesh, owner, plugin, constraints, chan>>

Next ==
  \/ \E r \in Ranks : ParseParameters(r)
  \/ \E r \in Ranks : Initialize(r)
  \/ \E r \in Ranks : SkipFirstTimestep(r)
  \/ \E r \in Ranks : HealpixThrows(r)
  \/ \E r \in Ranks : SampleBoundary(r)
  \/ MergeOwn
  \/ Probe
  \/ Recv
  \/ MergeReceived
  \/ Snapshot
  \/ \E r \in Ranks : SsendPost(r)
  \/ \E r \in Ranks : SsendFaults(r)
  \/ \E r \in Ranks : SsendReturn(r)
  \/ SubstepInit
  \/ SubstepDouble
  \/ SubstepDone
  \/ EvolveStep
  \/ ComputeVelocity
  \/ IteratorRangeThrows
  \/ BcastRoot
  \/ \E r \in Ranks : BcastRecv(r)
  \/ \E r \in Ranks : BcastMismatch(r)
  \/ \E r \in Ranks : Interpolate(r)
  \/ AdvanceTimestep

Spec == Init /\ [][Next]_vars

\* every rank keeps executing and the host keeps calling: a step that can
\* be taken is taken
FairInit ==
  \E run \in TerminationRuns : \E pl \in Garbage(run) : InitOf(run, pl)

\* the statements of rank r outside the coordinator's branch
RankStep(r) ==
  /\ r \in Ranks
  /\ \/ ParseParameters(r) \/ Initialize(r)
     \/ SkipFirstTimestep(r) \/ HealpixThrows(r) \/ SampleBoundary(r)
     \/ SsendPost(r) \/ SsendFaults(r) \/ SsendReturn(r)
     \/ BcastRecv(r) \/ BcastMismatch(r)
     \/ Interpolate(r)

\* the statements of the coordinator's branch, the sub-step aside
CoordinatorStep ==
  \/ MergeOwn \/ Probe \/ Recv \/ MergeReceived \/ Snapshot
  \/ SubstepInit \/ SubstepDouble \/ SubstepDone
  \/ ComputeVelocity \/ IteratorRangeThrows
  \/ BcastRoot

\* a sub-step, by its loop counter alone: the steps of the program that
\* satisfy it are the steps EvolveStep, and it is enabled when EvolveStep is
EvolveProgress ==
  /\ pc[ROOT] = "evolve"
  /\ fastscape_iteration < fastscape_iterations
  /\ fastscape_iteration' = fastscape_iteration + 1

\* every rank keeps executing its next statement and the host keeps
\* calling the plugin
Fairness ==
  /\ \A r \in 0..(MaxRanks - 1) : WF_vars(RankStep(r))
  /\ WF_vars(CoordinatorStep)
  /\ WF_fastscape_iteration(EvolveProgress)
  /\ WF_vars(AdvanceTimestep)

FairSpec == FairInit /\ [][Next]_vars /\ Fairness

(***************************************************************************)
(* Properties.                                                             *)
(***************************************************************************)
ReturnedFromBcast(r) == pc[r] \in {"interpolate", "returned"} /\ timestep_number > 0

\* C1: once a rank has returned from the broadcast, its V holds for every
\* cell index of the coordinator's array the value the coordinator computed,
\* and the constraint it imposes is read from that array.
C1_BroadcastComplete ==
  \A r \in Ranks :
    /\ ReturnedFromBcast(r) =>
         \A i \in DOMAIN V[ROOT] : i \in DOMAIN V[r] /\ V[r][i] = V[ROOT][i]
    /\ (pc[r] = "returned" /\ timestep_number > 0) =>
         \E g \in IndeterminateCoords :
           \A p \in LocalPoints(r) :
             constraints[r].values[p] = V[r][PixelOf(r, p, g)]

C1_Witness ==
  \E r \in Ranks :
    /\ r # ROOT
    /\ pc[r] = "returned"
    /\ timestep_number > 0
    /\ \E i \in DOMAIN V[r] : V[r][i] # RatInt(0)
    /\ \E p \in LocalPoints(r) : constraints[r].values[p] # RatInt(0)

\* the number of messages of rank p among the first k received
ReceivedBefore(p, k) == Cardinality({j \in 1..(k - 1) : recv_log[j] = p})

\* C2: the coordinator receives in increasing source-rank order: a message
\* of rank q is received only after all dim + 2 messages of every rank p
\* with 1 <= p < q.
C2_ReceiveOrder ==
  \A k \in 1..Len(recv_log) :
    /\ recv_log[k] \in 1..(nranks - 1)
    /\ \A p \in 1..(recv_log[k] - 1) : ReceivedBefore(p, k) = dim + 2

\* rank 2 became ready first: its message is pending while the coordinator
\* probes for rank 1, which has not sampled yet, and nothing is received
C2_Witness ==
  /\ nranks >= 3
  /\ pc[ROOT] = "probe" /\ recv_p = 1
  /\ pc[1] = "idle"
  /\ chan[2] # << >>
  /\ recv_log = << >>

\* all messages of ranks 1 and 2 have been received
C2_AllReceived ==
  /\ nranks >= 3
  /\ Len(recv_log) = 2 * (dim + 2)

\* C3: with base count B >= 1 and maximum duration D > 0 the loop leaves
\* B * 2^k sub-steps for the smallest k >= 0 with T / (B * 2^k) <= D, and
\* the sub-step duration is T / (B * 2^k), which does not exceed D.
C3_SubstepCount ==
  LET B == plugin[ROOT].fastscape_steps_per_aspect_step
      D == plugin[ROOT].maximum_fastscape_timestep
      T == timestep
  IN  (pc[ROOT] = "evolve" /\ B >= 1 /\ D > 0) =>
        \E k \in 0..MaxDoublings :
          /\ fastscape_iterations = B * 2 ^ k
          /\ T <= D * B * 2 ^ k
          /\ \A j \in 0..(k - 1) : T > D * B * 2 ^ j
          /\ fastscape_timestep_in_years = Rat(T, B * 2 ^ k)
          /\ ~RatGreater(fastscape_timestep_in_years, RatInt(D))

C3_Witness ==
  /\ pc[ROOT] = "evolve"
  /\ plugin[ROOT].fastscape_steps_per_aspect_step = 2
  /\ fastscape_iterations = 4
  /\ fastscape_timestep_in_years = RatInt(plugin[ROOT].maximum_fastscape_timestep)

SampledIndices(r) == {sampled[r][k].index : k \in 1..Len(sampled[r])}

SampledFaces(r) == {sampled[r][k].face : k \in 1..Len(sampled[r])}

\* C4 as stated: the cell indices sampled on distinct ranks are disjoint.
C4_IndicesDisjoint ==
  \A r \in Ranks : \A q \in Ranks :
    r # q => SampledIndices(r) \cap SampledIndices(q) = {}

\* C4, amended: the faces sampled on distinct ranks are disjoint, each rank
\* samples exactly the faces it owns, and an index sampled on two ranks
\* comes from a corner their faces share or from two points of one pixel.
C4_FacesDisjoint ==
  \A r \in Ranks :
    /\ \A q \in Ranks : r # q => SampledFaces(r) \cap SampledFaces(q) = {}
    /\ \A k \in 1..Len(sampled[r]) : owner[sampled[r][k].face] = r
    /\ pc[r] \notin {"idle", "failed"} /\ timestep_number > 0 =>
         SampledFaces(r) = {f \in 1..NumFaces(mesh) : owner[f] = r}

C4_Witness ==
  \E r \in Ranks : \E q \in Ranks :
    /\ r # q
    /\ SampledIndices(r) \cap SampledIndices(q) # {}
    /\ SampledFaces(r) # {} /\ SampledFaces(q) # {}

\* C5 as stated: when the first sub-step starts every cell has received
\* exactly one write from the merge.
C5_ExactlyOneWrite ==
  (pc[ROOT] = "evolve" /\ fastscape_iteration = 0) =>
    \A i \in DOMAIN writes : writes[i] = 1

\* C6: at timestep number 0 the coupling step returns and nothing is
\* sampled, sent, received, broadcast, evolved or constrained.
C6_FirstTimestepSkipped ==
  timestep_number = 0 =>
    /\ bcast = << >> /\ recv_log = << >>
    /\ h = NoArray /\ vz = NoArray /\ h_old = NoArray /\ writes = NoArray
    /\ fastscape_iteration = 0 /\ fastscape_iterations = 0
    /\ \A r \in Ranks :
         /\ pc[r] \in {"idle", "returned"}
         /\ temporary_variables[r] = << >> /\ sampled[r] = << >>
         /\ V[r] = NoArray
         /\ chan[r] = << >>
         /\ constraints[r] = << >>

C6_Witness ==
  /\ timestep_number = 0
  /\ nranks >= 2
  /\ \A r \in Ranks : pc[r] = "returned"

VelocityComputed == pc[ROOT] \in {"bcast", "interpolate", "returned"} /\ timestep_number > 0

SnapshotTaken ==
  pc[ROOT] \in {"substep", "double", "evolve", "bcast", "interpolate", "returned"}
    /\ timestep_number > 0

\* C7: the broadcast velocity of cell i is (elevation after the last
\* sub-step - elevation as gathered) / host timestep; the snapshot holds
\* the gathered elevation from the end of the gather on.
C7_VelocityFormula ==
  /\ SnapshotTaken => h_old = h_gathered
  /\ VelocityComputed =>
       \A i \in DOMAIN V[ROOT] :
         V[ROOT][i] = RatDiv(RatSub(h[i], h_gathered[i]), RatInt(timestep))

C7_Witness ==
  /\ VelocityComputed
  /\ fastscape_iterations >= 2
  /\ \E i \in DOMAIN V[ROOT] : h[i] # h_gathered[i] /\ V[ROOT][i] # RatInt(0)

\* C8 as stated: with every cell sampled at uplift rate U and the
\* configured incision rate zero, the velocity of every cell is U.
C8_UniformUplift ==
  (/\ VelocityComputed
   /\ plugin[ROOT].kff = 0
   /\ \A i \in DOMAIN writes : writes[i] >= 1
   /\ \A i \in DOMAIN vz : vz[i] = vz[0])
    => \A i \in DOMAIN V[ROOT] : V[ROOT][i] = vz[0]

\* C9 as stated: for a geometry model that is neither the box nor the
\* spherical shell, initialize fails and sets no grid parameter.
C9_UnsupportedGeometryFails ==
  \A r \in Ranks :
    prm.model_name \notin {"box", "spherical shell"} =>
      plugin[r].phase # "initialized"

\* C10 as stated: with the box geometry the coupling step runs on the
\* planar grid: no spherical grid is built (whose constructor can throw
\* before anything is allocated), and the fields have the nx * ny cells
\* set in initialize.
C10_PlanarGrid ==
  \A r \in Ranks :
    (plugin[r].geometry_type = "Box" /\ plugin[r].phase = "initialized"
       /\ timestep_number > 0)
      => /\ pc[r] = "failed" => V[r] # NoArray
         /\ V[r] # NoArray =>
              Cardinality(DOMAIN V[r]) = plugin[r].nx * plugin[r].ny

\* rank s has performed none of its sends in this timestep
NoSendPerformed(s) ==
  /\ send_i[s] = 0
  /\ chan[s] = << >>
  /\ pc[s] \in {"idle", "ssend", "failed"}

\* C11: as long as a non-coordinating rank has performed none of its sends
\* (stalled before them or crashed), the coordinator is still in its gather
\* at or before that rank and has not broadcast, and no rank has left the
\* broadcast: no step of any rank gets the timestep's coupling step past
\* the missing sends.
C11_StalledRankBlocksAll ==
  \A s \in Ranks \ {ROOT} :
    (timestep_number > 0 /\ NoSendPerformed(s)) =>
      /\ pc[ROOT] \in {"idle", "failed", "merge_own", "probe", "recv"}
      /\ pc[ROOT] \in {"probe", "recv"} => recv_p <= s
      /\ bcast = << >>
      /\ \A r \in Ranks : pc[r] \notin {"interpolate", "returned"}

\* rank 2 has sent nothing; rank 1 has completed its sends and waits in the
\* broadcast, the coordinator waits in the probe for rank 2
C11_Witness ==
  /\ nranks >= 3
  /\ timestep_number > 0
  /\ NoSendPerformed(2)
  /\ pc[1] = "bcast"
  /\ pc[ROOT] = "probe" /\ recv_p = 2

\* the number of messages of rank p received so far
ReceivedFrom(p) == ReceivedBefore(p, Len(recv_log) + 1)

\* C12: a non-coordinating rank has completed no more sends than the
\* coordinator has received from it, is at or past the broadcast only when
\* all its dim + 2 messages have been received, and has completed its first
\* send only when all messages of the ranks 1..p-1 have been received.
C12_NoSenderAhead ==
  \A p \in Ranks \ {ROOT} :
    timestep_number > 0 =>
      /\ send_i[p] <= ReceivedFrom(p)
      /\ pc[p] \in {"bcast", "interpolate", "returned"} =>
           ReceivedFrom(p) = dim + 2
      /\ send_i[p] >= 1 => \A q \in 1..(p - 1) : ReceivedFrom(q) = dim + 2

\* rank 2 is blocked in its first send while the coordinator is part-way
\* through the messages of rank 1
C12_Witness ==
  /\ nranks >= 3
  /\ pc[2] = "ssend_wait" /\ send_i[2] = 0 /\ chan[2] # << >>
  /\ ReceivedFrom(1) \in 1..(dim + 1)

\* the positions inside the branch of line 149 (lines 150-236)
CoordinatorPositions ==
  {"merge_own", "probe", "recv", "snapshot", "substep", "double", "evolve"}

\* a step that changes the elevation, the snapshot, the uplift or the
\* sub-step counter is a step of the coordinator inside its branch that
\* touches no other rank, or the return that releases the locals
FieldsWrittenByCoordinator ==
  (h' # h \/ vz' # vz \/ h_old' # h_old
     \/ fastscape_iteration' # fastscape_iteration) =>
    \/ timestep_number' # timestep_number
    \/ /\ pc[ROOT] \in CoordinatorPositions
       /\ \A r \in Ranks \ {ROOT} :
            /\ pc'[r] = pc[r] /\ V'[r] = V[r]
            /\ temporary_variables'[r] = temporary_variables[r]

\* V of another rank changes by its allocation (line 147), by the
\* broadcast (line 244) or by the return that releases it
VelocityWrittenByBroadcast ==
  \A r \in Ranks \ {ROOT} :
    V'[r] # V[r] =>
      \/ timestep_number' # timestep_number
      \/ pc[r] = "idle" /\ V[r] = NoArray /\ V'[r] = Zeros(Npix(plugin[r].nsides))
      \/ /\ pc[r] = "bcast" /\ pc'[r] = "interpolate"
         /\ bcast # << >> /\ V'[r] = BcastInto(V[r], bcast[1])

\* C13: no rank other than the coordinator is ever inside the branch that
\* allocates and writes the elevation, previous-elevation and uplift arrays
\* and runs the sub-steps; these change only by steps of the coordinator;
\* V of another rank is written by the broadcast alone; the solution vector
\* changes only when the host advances the timestep.
C13_OnlyCoordinatorWrites ==
  /\ [](\A r \in Ranks \ {ROOT} : pc[r] \notin CoordinatorPositions)
  /\ [][/\ FieldsWrittenByCoordinator
        /\ VelocityWrittenByBroadcast
        /\ sol' # sol => timestep_number' # timestep_number]_vars

\* the coordinator has run sub-steps on its arrays and another rank holds
\* the broadcast velocities
C13_Witness ==
  /\ nranks >= 2
  /\ h # NoArray /\ h_old # NoArray /\ vz # NoArray
  /\ fastscape_iteration >= 1
  /\ pc[1] = "interpolate"
  /\ \E i \in DOMAIN V[1] : V[1][i] # RatInt(0)

\* rank r has returned from the coupling step of this timestep
StepCompleted(r) == pc[r] = "returned" /\ timestep_number > 0

\* C14 as stated: for every set of boundary ids passed, the constraint is
\* imposed on the boundary the samples were taken from, the translation of
\* "top", in the vertical component.
C14_ConstraintOnTop ==
  \A r \in Ranks :
    StepCompleted(r) =>
      /\ constraints[r].boundary_id = TOP_BOUNDARY
      /\ constraints[r].component = dim - 1

\* C15 as stated: the interpolator's lookup of a sampled point gives the
\* cell index the sampler computed for it, and the velocity returned is
\* that cell's.
C15_IndexConsistent ==
  \A r \in Ranks :
    StepCompleted(r) =>
      \A k \in 1..Len(sampled[r]) :
        /\ constraints[r].index[sampled[r][k].point] = sampled[r][k].index
        /\ constraints[r].values[sampled[r][k].point] = V[r][sampled[r][k].index]

\* the same, for the 3d instantiation only
C15_IndexConsistent3d == dim = 3 => C15_IndexConsistent

\* C16 as stated: for every accepted base step count and maximum sub-step
\* duration the sub-step doubling loop terminates.
C16_DoublingTerminates == (pc[ROOT] = "double") ~> (pc[ROOT] # "double")

\* with a positive base step count the loop does terminate
C16_DoublingTerminatesPositive ==
  (pc[ROOT] = "double" /\ plugin[ROOT].fastscape_steps_per_aspect_step >= 1)
    ~> (pc[ROOT] # "double")

\* every rank is about to enter the coupling step of a timestep after the
\* first, with the supported spherical shell, a valid grid resolution and
\* a positive base step count
AllEnter ==
  /\ timestep_number > 0
  /\ prm.model_name = "spherical shell"
  /\ prm.steps >= 1
  /\ \A r \in Ranks :
       /\ pc[r] = "idle"
       /\ plugin[r].phase = "initialized"
       /\ HealpixValid(plugin[r].nsides)

\* C20 as stated: if every rank enters the coupling step and keeps taking
\* steps, every rank eventually returns from it.
C20_EveryRankReturns == AllEnter ~> (\A r \in Ranks : pc[r] = "returned")

\* the part of C20 that rests on the sends alone: every other rank gets
\* through its dim + 2 sends and reaches the broadcast
C20_SendersReachBroadcast ==
  AllEnter ~>
    (\A r \in Ranks \ {ROOT} : pc[r] \in {"bcast", "interpolate", "returned"})

\* no rank sampled cell i in this timestep
Unsampled(i) == \A r \in Ranks : i \notin SampledIndices(r)

\* the coordinator is between the end of the gather and the first sub-step
BeforeFirstSubstep ==
  /\ timestep_number > 0
  /\ \/ pc[ROOT] \in {"substep", "double"}
     \/ pc[ROOT] = "evolve" /\ fastscape_iteration = 0

\* C17: a cell that no rank sampled has, from the snapshot up to the first
\* sub-step, the sentinel elevation, the sentinel as previous elevation and
\* a zero uplift rate; and no step between the end of the gather and the
\* first sub-step raises an error.
C17_SentinelPropagated ==
  /\ [](BeforeFirstSubstep =>
          \A i \in DOMAIN h :
            Unsampled(i) =>
              /\ h[i] = RatInt(DBL_MAX)
              /\ h_old[i] = RatInt(DBL_MAX)
              /\ vz[i] = RatInt(0))
  /\ [][pc[ROOT] \in {"snapshot", "substep", "double"} => pc'[ROOT] # "failed"]_vars

\* the first sub-step is about to run on arrays with a cell nobody sampled
C17_Witness ==
  /\ pc[ROOT] = "evolve" /\ fastscape_iteration = 0 /\ timestep_number > 0
  /\ fastscape_iterations >= 1
  /\ nranks >= 2
  /\ \E i \in DOMAIN h : Unsampled(i)
  /\ \E i \in DOMAIN h : ~Unsampled(i)

\* the highest rank that sampled cell i, and its last sample of the cell
LastRankOf(i) ==
  CHOOSE r \in Ranks :
    /\ i \in SampledIndices(r)
    /\ \A q \in Ranks : i \in SampledIndices(q) => q <= r

LastSampleOf(i) ==
  LET smp == sampled[LastRankOf(i)]
      k == CHOOSE k \in 1..Len(smp) :
             /\ smp[k].index = i
             /\ \A l \in 1..Len(smp) : smp[l].index = i => l <= k
  IN  smp[k]

\* the gather is over
GatherDone ==
  /\ timestep_number > 0
  /\ pc[ROOT] \in {"substep", "double", "evolve", "bcast", "interpolate", "returned"}

\* C19: after the gather the elevation (as snapshot) and the uplift of a
\* sampled cell are both those of one sample: the last sample of the cell
\* in the arrays of the highest rank that sampled it.
C19_LastWriterWins ==
  GatherDone =>
    \A i \in DOMAIN h_old :
      ~Unsampled(i) =>
        /\ h_old[i] = RatInt(LastSampleOf(i).z)
        /\ vz[i] = RatInt(LastSampleOf(i).vel)

\* a cell sampled on two ranks with different values
C19_Witness ==
  /\ GatherDone
  /\ \E r \in Ranks : \E q \in Ranks :
       /\ r < q
       /\ \E k \in 1..Len(sampled[r]) : \E l \in 1..Len(sampled[q]) :
            /\ sampled[r][k].index = sampled[q][l].index
            /\ sampled[r][k].index \in DOMAIN h_old
            /\ sampled[r][k].z # sampled[q][l].z
            /\ sampled[r][k].vel # sampled[q][l].vel

\* this coupling step has the samples and the timestep length of the
\* previous one
SameInputsAsPrevious ==
  /\ prev_step # << >>
  /\ prev_step.sampled = sampled
  /\ prev_step.timestep = timestep

\* C18: a coupling step with the samples and the timestep length of the
\* previous one broadcasts the same velocity array; every rank enters the
\* step with no array left from the previous one; and no step of
\* compute_velocity_constraints_on_boundary changes a member of the plugin.
C18_NoCarryOver ==
  /\ []((SameInputsAsPrevious /\ bcast # << >>) => bcast[1] = prev_step.V)
  /\ [](\A r \in Ranks :
          pc[r] = "idle" => temporary_variables[r] = << >> /\ V[r] = NoArray)
  /\ [](pc[ROOT] \in {"idle", "merge_own"} =>
          h = NoArray /\ vz = NoArray /\ h_old = NoArray)
  /\ [][\A r \in Ranks :
          plugin[r].phase = "initialized" => plugin'[r] = plugin[r]]_vars

\* the second of two coupling steps with equal samples and timestep length
\* has broadcast velocities that are not all zero
C18_Witness ==
  /\ SameInputsAsPrevious
  /\ nranks >= 2
  /\ bcast # << >>
  /\ \E i \in DOMAIN bcast[1] : bcast[1][i] # RatInt(0)
  /\ \E r \in Ranks : sampled[r] # << >>

\* rank r is executing its sends
Sending(r) ==
  /\ r # ROOT
  /\ timestep_number > 0
  /\ pc[r] \in {"ssend", "ssend_wait"}

\* C21 as stated: when a rank sends, each of its dim + 2 sample arrays has
\* the length of the cell-index array, the count of every message.
C21_SendBuffersLongEnough ==
  \A r \in Ranks :
    Sending(r) =>
      /\ Len(temporary_variables[r]) = dim + 2
      /\ \A i \in 1..(dim + 2) :
           Len(temporary_variables[r][i]) = Len(temporary_variables[r][2])

\* the arrays that are appended to do have the length of the index array
C21_FilledArraysAgree ==
  \A r \in Ranks :
    Sending(r) =>
      \A i \in 1..3 :
        Len(temporary_variables[r][i]) = Len(temporary_variables[r][2])

\* the sub-step count and duration have been set
SubstepsSet == timestep_number > 0 /\ pc[ROOT] \in {"double", "evolve", "bcast"}

\* C22 as stated: in and after the doubling loop, sub-step count times
\* sub-step duration is the host timestep, and the evolution loop has run
\* exactly that many sub-steps when the velocity is computed.
C22_SubstepsCoverTimestep ==
  /\ SubstepsSet =>
       RatMul(RatInt(fastscape_iterations), fastscape_timestep_in_years)
         = RatInt(timestep)
  /\ (timestep_number > 0 /\ pc[ROOT] = "bcast") =>
       fastscape_iteration = fastscape_iterations

\* the same for a base step count of at least one
C22_SubstepsCoverTimestepPositive ==
  plugin[ROOT].fastscape_steps_per_aspect_step >= 1 => C22_SubstepsCoverTimestep

\* the cell indices in array tv[2] lie in the cells 0..n-1
IndicesWithin(tv, n) == \A k \in 1..Len(tv[2]) : tv[2][k] \in 0..(n - 1)

\* C23 as stated: the indices of the own samples and of the received
\* samples lie in the arrays the coordinator allocated, and the indices the
\* interpolator looks up lie in the rank's velocity array.
C23_IndicesInRange ==
  timestep_number > 0 =>
    /\ pc[ROOT] = "merge_own" =>
         IndicesWithin(temporary_variables[ROOT], Npix(plugin[ROOT].nsides))
    /\ (pc[ROOT] = "recv" /\ recv_i = Len(temporary_variables[ROOT])) =>
         IndicesWithin(temporary_variables[ROOT], Cardinality(DOMAIN h))
    /\ \A r \in Ranks :
         pc[r] = "interpolate" =>
           \A p \in LocalPoints(r) : \A g \in IndeterminateCoords :
             PixelOf(r, p, g) \in DOMAIN V[r]

\* the same with the spherical shell, where initialize sets the resolution
C23_IndicesInRangeShell ==
  prm.model_name = "spherical shell" => C23_IndicesInRange

=============================================================================
